---- MODULE Spec2Model ----
(***************************************************************************)
(* Ricci flow with surgery on an undirected hypergraph                     *)
(* (src/UndirectedHypergraphFinal.py).                                     *)
(*                                                                         *)
(* Two specifications share the variables:                                 *)
(*   Spec      the UndirectedHypergraph store driven through its public    *)
(*             methods in any order;                                       *)
(*   SpecMain  the __main__ pipeline: build from the data frame, the       *)
(*             iteration-0 pass, then total_iterations iterations with     *)
(*             surgery on the even ones.                                   *)
(*                                                                         *)
(* Numbers.  Weights and distances are fixed-point integers in units of    *)
(* 1/Scale; probabilities, transport costs and curvatures are exact        *)
(* fractions [num, den].  float('inf') is the integer Inf.                 *)
(*                                                                         *)
(* Iteration order.  A Python dict iterates in insertion order and a set   *)
(* in table order.  Loops over hypergraph.hyperedges whose result depends  *)
(* on the order (the update passes) visit the ids in an arbitrary order;   *)
(* list(self.nodes) is a parameter node_list of floyd_warshall, and the    *)
(* pipeline uses the ascending order for it at both places it is taken.    *)
(***************************************************************************)
EXTENDS Integers, Sequences, FiniteSets, TLC

\* ------------------------------------------------------------------ bounds
MaxNode == 3
MaxId == 2
MaxLen == 2
MaxHist == 2
MaxRows == 2

Node == 1..MaxNode
Ids == 1..MaxId

\* ------------------------------------------------------- program constants
Scale == 10
Inf == 1000000
total_iterations == 5

\* Python's None where a fraction is expected, and where a weight is expected
None == [num |-> 0, den |-> 0]
NoWeight == -1

\* --------------------------------------------------------------- helpers
Range(s) == {s[k] : k \in DOMAIN s}

EmptyMap == [x \in {} |-> 0]

Put(f, k, v) == [x \in (DOMAIN f) \cup {k} |-> IF x = k THEN v ELSE f[x]]

Restrict(f, S) == [x \in S |-> f[x]]

Last(s) == s[Len(s)]

Min(S) == CHOOSE x \in S : \A y \in S : x <= y

RECURSIVE SortedSeq(_)
SortedSeq(S) ==
    IF S = {} THEN <<>>
    ELSE LET m == CHOOSE x \in S : \A y \in S : x <= y
         IN <<m>> \o SortedSeq(S \ {m})

Perms(S) == {p \in [1..Cardinality(S) -> S] : Range(p) = S}

RECURSIVE SumOver(_, _)
SumOver(f, S) ==
    IF S = {} THEN 0
    ELSE LET x == CHOOSE y \in S : TRUE IN f[x] + SumOver(f, S \ {x})

\* member lists a caller may pass: the lists over Node of length 0..MaxLen
\* without repetition (a paper lists an author once), in ascending order
MemberLists ==
    {m \in UNION {[1..n -> Node] : n \in 0..MaxLen} :
        \A a, b \in DOMAIN m : a < b => m[a] < m[b]}

\* weights a caller may append through add_weights (0, 0.3), besides the
\* values the update passes produce
WeightVals == {0, 3}

\* ------------------------------------------------------------------ state
VARIABLES
    nodes,            \* self.nodes
    hyperedges,       \* self.hyperedges: id -> list of member nodes
    weights,          \* self.weights: id -> weight history
    ricci_curvature,  \* self.ricci_curvature: id -> curvature history
    last_call,        \* the last store method called; for a removal, the members removed
    pc,               \* position of __main__
    rows,             \* rows of the data frame consumed so far
    iteration,        \* loop variable i of __main__ (0 during the baseline pass)
    todo,             \* ids the running update pass has not visited yet
    distance_matrix,  \* distance_matrix / distance_matrix_i of __main__
    normalized_weight, \* the local normalized_weight of the running update pass
    tables,           \* the weight tables on disk: path -> rows
    matrix_files,     \* the matrices on disk: path -> matrix
    stats_files,      \* the statistics reports on disk: path -> report
    last_written,     \* path of the weight table the last update pass wrote
    last_read,        \* path of the weight table delete_hyperedges last asked for
    pruned,           \* iteration -> what delete_hyperedges did in it
    err               \* the exception that ended __main__, if any

store == <<nodes, hyperedges, weights, ricci_curvature>>
main == <<pc, rows, iteration, todo, distance_matrix, normalized_weight, tables,
          matrix_files, stats_files, last_written, last_read, pruned, err>>
vars == <<nodes, hyperedges, weights, ricci_curvature, last_call,
          pc, rows, iteration, todo, distance_matrix, normalized_weight, tables,
          matrix_files, stats_files, last_written, last_read, pruned, err>>

\* ------------------------------------------------ UndirectedHypergraph
NoCall == [op |-> "none", members |-> <<>>]

\* __init__
HypergraphInit ==
    /\ nodes = {}
    /\ hyperedges = EmptyMap
    /\ weights = EmptyMap
    /\ ricci_curvature = EmptyMap

\* add_node
add_node(node) ==
    /\ nodes' = nodes \cup {node}
    /\ UNCHANGED <<hyperedges, weights, ricci_curvature>>

\* variant of add_hyperedge: the members are inserted as nodes before the id
\* is looked up
add_hyperedge_nodes_first(hyperedge_id, members) ==
    IF hyperedge_id \in DOMAIN hyperedges
    THEN /\ nodes' = nodes \cup Range(members)
         /\ UNCHANGED <<hyperedges, weights, ricci_curvature>>
    ELSE /\ nodes' = nodes \cup Range(members)
         /\ hyperedges' = Put(hyperedges, hyperedge_id, members)
         /\ weights' = Put(weights, hyperedge_id, <<Scale>>)
         /\ UNCHANGED ricci_curvature

\* add_hyperedge
add_hyperedge(hyperedge_id, members) ==
    IF hyperedge_id \in DOMAIN hyperedges
    THEN UNCHANGED store
    ELSE /\ nodes' = nodes \cup Range(members)
         /\ hyperedges' = Put(hyperedges, hyperedge_id, members)
         /\ weights' = Put(weights, hyperedge_id, <<Scale>>)
         /\ UNCHANGED ricci_curvature

\* variant of add_weights: the new weight takes the place of the history
add_weights_overwriting(w, hyperedge_id, value) ==
    IF value # NoWeight
    THEN [w EXCEPT ![hyperedge_id] = <<value>>]
    ELSE w

\* add_weights
add_weights_to(w, hyperedge_id, value) ==
    IF value # NoWeight
    THEN [w EXCEPT ![hyperedge_id] = Append(@, value)]
    ELSE w

\* add_ricci_curvature
add_ricci_curvature_to(rc, hyperedge_id, orc) ==
    LET rc0 == IF hyperedge_id \notin DOMAIN rc
               THEN Put(rc, hyperedge_id, <<>>) ELSE rc
    IN [rc0 EXCEPT ![hyperedge_id] = Append(@, orc)]

\* remove_hyperedge, lines 436-440: the members of the removed hyperedge
\* minus the members of the other hyperedges, visited one at a time
RECURSIVE nodes_to_remove_after(_, _, _)
nodes_to_remove_after(remaining, others, ids) ==
    IF ids = <<>> \/ remaining = {} THEN remaining
    ELSE nodes_to_remove_after(remaining \ Range(others[Head(ids)]), others, Tail(ids))

\* variants of nodes_to_remove: every member goes / no member goes
nodes_to_remove_all(others, nodes_to_check) == Range(nodes_to_check)

nodes_to_remove_none(others, nodes_to_check) == {}

nodes_to_remove(others, nodes_to_check) ==
    nodes_to_remove_after(Range(nodes_to_check), others, SortedSeq(DOMAIN others))

\* remove_hyperedge, on the store st = [nodes, hyperedges, weights]
after_remove_hyperedge(st, hyperedge_id) ==
    IF hyperedge_id \in DOMAIN st.hyperedges
    THEN LET others == Restrict(st.hyperedges, (DOMAIN st.hyperedges) \ {hyperedge_id})
         IN [nodes |-> st.nodes \ nodes_to_remove(others, st.hyperedges[hyperedge_id]),
             hyperedges |-> others,
             weights |-> Restrict(st.weights, (DOMAIN st.weights) \ {hyperedge_id})]
    ELSE st

\* remove_hyperedge
remove_hyperedge(hyperedge_id) ==
    LET after == after_remove_hyperedge(
                    [nodes |-> nodes, hyperedges |-> hyperedges, weights |-> weights],
                    hyperedge_id)
    IN /\ nodes' = after.nodes
       /\ hyperedges' = after.hyperedges
       /\ weights' = after.weights
       /\ UNCHANGED ricci_curvature

\* node_degree
node_degree(node) ==
    Cardinality({h \in DOMAIN hyperedges : node \in Range(hyperedges[h])})

\* neighbours
neighbours(node) ==
    IF node \notin nodes THEN {}
    ELSE UNION {Range(hyperedges[h]) :
                  h \in {g \in DOMAIN hyperedges : node \in Range(hyperedges[g])}}
         \ {node}

\* an argument of find_hyperedges_containing_nodes: a single node, or a
\* list, set or tuple of nodes
single(node) == [kind |-> "node", items |-> {node}]

collection(kind, items) == [kind |-> kind, items |-> items]

\* find_hyperedges_containing_nodes(*nodes): args is the tuple of arguments.
\* set(nodes) at line 234 hashes every argument: a list or a set among them
\* is a TypeError; a tuple is hashable and stays in nodes_set as an element,
\* which no node equals, so line 245 prints its warning.  found is the ids
\* found, as a set.
find_hyperedges_containing_nodes(args) ==
    IF \E a \in Range(args) : a.kind \in {"list", "set"}
    THEN [raised |-> "TypeError", warned |-> FALSE, found |-> {}]
    ELSE [raised |-> "none",
          warned |-> \/ \E a \in Range(args) : a.kind = "tuple"
                     \/ ~(UNION {a.items : a \in Range(args)} \subseteq nodes),
          found |-> {h \in DOMAIN hyperedges :
                       UNION {a.items : a \in Range(args)} \cap Range(hyperedges[h]) # {}}]

\* ------------------------------------------------------------ fractions
RECURSIVE GCD(_, _)
GCD(a, b) == IF b = 0 THEN a ELSE GCD(b, a % b)

Abs(x) == IF x < 0 THEN -x ELSE x

Frac(n, d) ==
    LET g == GCD(Abs(n), Abs(d))
        s == IF d < 0 THEN -1 ELSE 1
    IN [num |-> (s * n) \div g, den |-> (s * d) \div g]

FAdd(a, b) == Frac(a.num * b.den + b.num * a.den, a.den * b.den)
FSub(a, b) == Frac(a.num * b.den - b.num * a.den, a.den * b.den)
FMul(a, b) == Frac(a.num * b.num, a.den * b.den)
FDiv(a, b) == Frac(a.num * b.den, a.den * b.num)
FLeq(a, b) == a.num * b.den <= b.num * a.den
FInt(n) == [num |-> n, den |-> 1]

RECURSIVE FSum(_, _)
FSum(f, S) ==
    IF S = {} THEN FInt(0)
    ELSE LET x == CHOOSE y \in S : TRUE IN FAdd(f[x], FSum(f, S \ {x}))

\* ------------------------------------------------------ node_probability
alpha == [num |-> 1, den |-> 10]

\* lines 192-197
denominator_of(node) ==
    LET containing == find_hyperedges_containing_nodes(<<single(node)>>).found
    IN SumOver([h \in containing |-> Len(hyperedges[h]) - 1], containing)

\* lines 206-207
numerator_of(node, neighbour) ==
    Cardinality(find_hyperedges_containing_nodes(
        <<single(node), single(neighbour)>>).found)

\* lines 187-217: the distribution before the normalization step
unnormalized_probability(node) ==
    LET denominator == denominator_of(node)
    IN IF denominator = 0
       THEN [n \in nodes |-> IF n = node THEN FInt(1) ELSE FInt(0)]
       ELSE [n \in nodes |->
               IF n = node THEN alpha
               ELSE IF n \in neighbours(node)
                    THEN FDiv(FMul(FSub(FInt(1), alpha), FInt(numerator_of(node, n))),
                              FInt(denominator))
                    ELSE FInt(0)]

\* variant of normalized: the normalization step left out
normalized_skipped(probability_distribution) == probability_distribution

\* lines 219-223
normalized(probability_distribution) ==
    LET total_probability == FSum(probability_distribution, DOMAIN probability_distribution)
    IN [n \in DOMAIN probability_distribution |->
          FDiv(probability_distribution[n], total_probability)]

\* node_probability
node_probability(node) ==
    IF denominator_of(node) = 0
    THEN unnormalized_probability(node)
    ELSE normalized(unnormalized_probability(node))

\* -------------------------------------------------------- floyd_warshall
Plus(a, b) == IF a = Inf \/ b = Inf THEN Inf ELSE a + b

index_of(node_list, node) == CHOOSE k \in 1..Len(node_list) : node_list[k] = node

\* lines 105-108
initial_dist(n) == [a \in 1..n |-> [b \in 1..n |-> IF a = b THEN 0 ELSE Inf]]

\* variants of relax_pair: the later hyperedge overwrites / one direction only
relax_pair_overwrite(dist, idx_i, idx_j, weight) ==
    [[dist EXCEPT ![idx_i][idx_j] = weight] EXCEPT ![idx_j][idx_i] = weight]

relax_pair_one_way(dist, idx_i, idx_j, weight) ==
    IF dist[idx_i][idx_j] > weight
    THEN [dist EXCEPT ![idx_i][idx_j] = weight]
    ELSE dist

\* lines 116-118, for one pair of members
relax_pair(dist, idx_i, idx_j, weight) ==
    IF dist[idx_i][idx_j] > weight
    THEN [[dist EXCEPT ![idx_i][idx_j] = weight] EXCEPT ![idx_j][idx_i] = weight]
    ELSE dist

\* lines 112-118, for one hyperedge
RECURSIVE relax_members(_, _, _, _, _, _)
relax_members(dist, node_list, members, weight, i, j) ==
    IF i > Len(members) THEN dist
    ELSE IF j > Len(members)
         THEN relax_members(dist, node_list, members, weight, i + 1, i + 2)
         ELSE relax_members(relax_pair(dist, index_of(node_list, members[i]),
                                       index_of(node_list, members[j]), weight),
                            node_list, members, weight, i, j + 1)

\* lines 110-118
RECURSIVE relax_hyperedges(_, _, _, _, _)
relax_hyperedges(dist, node_list, hs, ws, ids) ==
    IF ids = <<>> THEN dist
    ELSE relax_hyperedges(
            relax_members(dist, node_list, hs[Head(ids)], Last(ws[Head(ids)]), 1, 2),
            node_list, hs, ws, Tail(ids))

\* lines 123-125, for one k, i, j
relax_entry(dist, k, i, j) ==
    IF dist[i][j] > Plus(dist[i][k], dist[k][j])
    THEN [[dist EXCEPT ![i][j] = Plus(dist[i][k], dist[k][j])]
                EXCEPT ![j][i] = Plus(dist[i][k], dist[k][j])]
    ELSE dist

\* lines 122-125: the loop over j, for one k and one i
RECURSIVE relax_through_j(_, _, _, _, _)
relax_through_j(dist, n, k, i, j) ==
    IF j > n THEN dist
    ELSE relax_through_j(relax_entry(dist, k, i, j), n, k, i, j + 1)

\* lines 121-125: the loop over i, for one k (n = Len(dist); the test on
\* Len(dist) only makes the evaluator compute dist before it goes on)
RECURSIVE relax_through_i(_, _, _, _)
relax_through_i(dist, n, k, i) ==
    IF i > n \/ Len(dist) = 0 THEN dist
    ELSE relax_through_i(relax_through_j(dist, n, k, i, 1), n, k, i + 1)

\* lines 120-125
RECURSIVE relax_through(_, _, _)
relax_through(dist, n, k) ==
    IF k > n \/ Len(dist) = 0 THEN dist
    ELSE relax_through(relax_through_i(dist, n, k, 1), n, k + 1)

\* lines 127-131
inf_to_zero(dist) ==
    [a \in DOMAIN dist |-> [b \in DOMAIN dist[a] |-> IF dist[a][b] = Inf THEN 0 ELSE dist[a][b]]]

\* floyd_warshall, on the store (ns, hs, ws), with node_list = list(self.nodes)
floyd_warshall_on(node_list, hs, ws) ==
    LET n == Len(node_list)
        d0 == initial_dist(n)
        d1 == relax_hyperedges(d0, node_list, hs, ws, SortedSeq(DOMAIN hs))
        d2 == relax_through(d1, n, 1)
    IN inf_to_zero(d2)

\* variant of floyd_warshall: a matrix computed before is handed out again
floyd_warshall_kept(node_list) ==
    IF distance_matrix # <<>> THEN distance_matrix
    ELSE floyd_warshall_on(node_list, hyperedges, weights)

floyd_warshall(node_list) == floyd_warshall_on(node_list, hyperedges, weights)

\* list(self.nodes) as the pipeline takes it
list_nodes(ns) == SortedSeq(ns)

\* calculate_distance_matrix
calculate_distance_matrix == floyd_warshall(list_nodes(nodes))

\* ------------------------- earthmover_distance_gurobi_distance_matrix
RECURSIVE LCMOver(_, _)
LCMOver(f, S) ==
    IF S = {} THEN 1
    ELSE LET x == CHOOSE y \in S : TRUE
             rest == LCMOver(f, S \ {x})
         IN (f[x].den * rest) \div GCD(f[x].den, rest)

\* the ValueError of line 278, where a fraction is expected
MassMismatch == [num |-> 1, den |-> 0]

\* variant of optimal_cost: the cost of the plan that ships from every
\* source to every sink in proportion to their masses, which meets the
\* constraints but is not the cheapest
product_plan_cost(supply, demand, cost) ==
    SumOver([c \in (DOMAIN supply) \X (DOMAIN demand) |->
                cost[c[1]][c[2]] * supply[c[1]] * demand[c[2]]],
            (DOMAIN supply) \X (DOMAIN demand))

\* lines 297-315, the optimum of the linear program: supply and demand are
\* the two distributions in units of 1/unit; an optimal plan is a vertex of
\* the transportation polytope, and every vertex is reached by filling one
\* cell after the other with all it can take
RECURSIVE optimal_cost(_, _, _)
optimal_cost(supply, demand, cost) ==
    LET cells == {c \in (DOMAIN supply) \X (DOMAIN demand) :
                     supply[c[1]] > 0 /\ demand[c[2]] > 0}
    IN IF cells = {} THEN 0
       ELSE Min({LET moved == IF supply[c[1]] < demand[c[2]]
                              THEN supply[c[1]] ELSE demand[c[2]]
                 IN cost[c[1]][c[2]] * moved
                    + optimal_cost([supply EXCEPT ![c[1]] = @ - moved],
                                   [demand EXCEPT ![c[2]] = @ - moved], cost)
                 : c \in cells})

\* earthmover_distance_gurobi_distance_matrix; solved says whether Gurobi
\* builds the model and reaches GRB.OPTIMAL (lines 284-328)
\* the unit in which both distributions are whole numbers
common_denominator(mu_A, mu_B) ==
    LCMOver([n \in DOMAIN mu_A |->
                [num |-> 0, den |-> (mu_A[n].den * mu_B[n].den)
                                        \div GCD(mu_A[n].den, mu_B[n].den)]],
            DOMAIN mu_A)

\* lines 266-324: the mass check, and the cost of the optimal plan with the
\* distributions in units of 1/common_denominator
transport_cost(mu_A, mu_B, node_list, dm, solved) ==
    IF FSum(mu_A, DOMAIN mu_A) # FSum(mu_B, DOMAIN mu_B) THEN MassMismatch
    ELSE IF ~solved \/ Len(dm) # Len(node_list) THEN None
    ELSE Frac(optimal_cost(
                  [k \in 1..Len(node_list) |->
                      (mu_A[node_list[k]].num * common_denominator(mu_A, mu_B))
                          \div mu_A[node_list[k]].den],
                  [k \in 1..Len(node_list) |->
                      (mu_B[node_list[k]].num * common_denominator(mu_A, mu_B))
                          \div mu_B[node_list[k]].den],
                  dm),
              common_denominator(mu_A, mu_B))

\* earthmover_distance_gurobi_distance_matrix; solved says whether Gurobi
\* builds the model and reaches GRB.OPTIMAL (lines 284-328)
earthmover_distance_gurobi_distance_matrix(node_A, node_B, dm, solved) ==
    IF node_A \notin nodes \/ node_B \notin nodes THEN None
    ELSE transport_cost(node_probability(node_A), node_probability(node_B),
                        list_nodes(nodes), dm, solved)

\* ------------------------- earthmover_distance_hyperedge_combinations
\* combinations(nodes, 2), as pairs of positions
Combinations2(members) ==
    {c \in (DOMAIN members) \X (DOMAIN members) : c[1] < c[2]}

\* earthmover_distance_hyperedge_combinations; solved tells, for each pair,
\* whether the solver succeeds.  The result is the curvature, None, or
\* MassMismatch when line 278 raises.
\* lines 354-364, with the distances of the pairs, the pairs that count and
\* the last weight of the hyperedge
curvature_from(emd, valid, weight) ==
    IF \E c \in DOMAIN emd : emd[c] = MassMismatch THEN MassMismatch
    ELSE IF Cardinality(valid) > 0
         THEN IF weight = 0
              THEN FSub(FInt(1), FDiv(FDiv(FSum(emd, valid), FInt(Cardinality(valid))),
                                      FInt(Scale)))
              ELSE FSub(FInt(1), FDiv(FDiv(FSum(emd, valid), FInt(Cardinality(valid))),
                                      FInt(weight)))
         ELSE None

\* the pairs of emd whose distance is not None (lines 350-352)
valid_pairs(emd) == {c \in DOMAIN emd : emd[c] # None}

\* lines 348-349: the distance of each pair of members
pair_distances(members, dm, solved) ==
    [c \in Combinations2(members) |->
        earthmover_distance_gurobi_distance_matrix(
            members[c[1]], members[c[2]], dm, solved[c])]

\* earthmover_distance_hyperedge_combinations; solved tells, for each pair,
\* whether the solver succeeds.  The result is the curvature, None, or
\* MassMismatch when line 278 raises.
earthmover_distance_hyperedge_combinations(hyperedge_id, dm, solved) ==
    IF hyperedge_id \notin DOMAIN hyperedges THEN None
    ELSE IF Len(hyperedges[hyperedge_id]) < 2 THEN FInt(1)
    ELSE curvature_from(pair_distances(hyperedges[hyperedge_id], dm, solved),
                        valid_pairs(pair_distances(hyperedges[hyperedge_id], dm, solved)),
                        Last(weights[hyperedge_id]))

\* adjusted_sigmoid_0_to_1 of x units (a fraction), in units, rounded down:
\* 1 / (1 + exp(-x / Scale)) reaches 0.6, 0.7, 0.8, 0.9 at x / Scale =
\* 0.406, 0.848, 1.387, 2.198 and 0.5 at 0; below 0 it mirrors
SigmoidUp(x) ==
    IF x.num * 1000 >= 2198 * Scale * x.den THEN (9 * Scale) \div 10
    ELSE IF x.num * 1000 >= 1387 * Scale * x.den THEN (8 * Scale) \div 10
    ELSE IF x.num * 1000 >= 848 * Scale * x.den THEN (7 * Scale) \div 10
    ELSE IF x.num * 1000 >= 406 * Scale * x.den THEN (6 * Scale) \div 10
    ELSE (5 * Scale) \div 10

adjusted_sigmoid_0_to_1(x) ==
    IF x.num >= 0 THEN SigmoidUp(x)
    ELSE Scale - SigmoidUp([num |-> -x.num, den |-> x.den]) - 1

\* --------------------------------------------------- connectivity
\* the nodes the breadth-first search of check_weak_connectivity and of
\* connected_components visits from the nodes of S
RECURSIVE visited_from(_)
visited_from(S) ==
    LET further == S \cup UNION {neighbours(n) : n \in S}
    IN IF further = S THEN S ELSE visited_from(further)

\* check_weak_connectivity
check_weak_connectivity ==
    IF nodes = {} THEN TRUE
    ELSE LET start_node == CHOOSE n \in nodes : TRUE
         IN Cardinality(visited_from({start_node})) = Cardinality(nodes)

\* connected_components
connected_components == {visited_from({n}) : n \in nodes}

\* ------------------------------------------------------ the files
\* line 490, line 556, line 626, line 528, line 606, line 628
weights_file(i) ==
    [dir |-> ".", name |-> "dataset_networkscience_normalized_weights_data_iteration", n |-> i]

orc_file(i) ==
    [dir |-> ".", name |-> "dataset_networkscience_ORC_weights_iteration", n |-> i]

surgery_file(i) ==
    [dir |-> "outputfiles", name |-> "dataset_networkscience_normalized_weights_data_iteration", n |-> i]

matrix_file(i) ==
    [dir |-> ".", name |-> "distance_matrix_normalized_weights", n |-> i]

testing_fw_file == [dir |-> "outputfiles", name |-> "undirected_testing_fw", n |-> 0]

stats_file(i) ==
    [dir |-> "outputfiles", name |-> "networkscience_8percentsurgery_RF_normalized", n |-> i \div 2]

\* open(file_name, 'a') and the header row: an absent file becomes a table
\* without rows, a file that is there is kept
opened_for_append(ts, path) ==
    IF path \in DOMAIN ts THEN ts ELSE Put(ts, path, <<>>)

\* writer.writerow([hyperedge_id, orc, normalized_weight])
with_row(ts, path, hyperedge_id, orc, weight) ==
    [ts EXCEPT ![path] = Append(@, [id |-> hyperedge_id, orc |-> orc, weight |-> weight])]

\* ------------------------------------------------ delete_hyperedges
percentage == [num |-> 8, den |-> 100]

\* find_top_n_weighted_hyperedges: the ids of the first n rows of the table
\* sorted by descending weight; rows of equal weight come in any order
find_top_n_weighted_hyperedges(table, n) ==
    LET k == IF n < Len(table) THEN n ELSE Len(table)
        picks == {sel \in [1..k -> DOMAIN table] :
                    /\ \A a, b \in 1..k : a < b =>
                          /\ sel[a] # sel[b]
                          /\ table[sel[a]].weight >= table[sel[b]].weight
                    /\ \A r \in (DOMAIN table) \ Range(sel) :
                          \A a \in 1..k : table[r].weight <= table[sel[a]].weight}
    IN {[a \in 1..k |-> table[sel[a]].id] : sel \in picks}

\* lines 537-538
RECURSIVE after_removals(_, _)
after_removals(st, ids) ==
    IF ids = <<>> THEN st
    ELSE after_removals(after_remove_hyperedge(st, Head(ids)), Tail(ids))

\* ------------------------------------------- Spec: the store's methods
NoPath == [dir |-> "", name |-> "", n |-> 0]

MainIdle ==
    /\ rows = 0
    /\ iteration = 0
    /\ todo = {}
    /\ distance_matrix = <<>>
    /\ normalized_weight = NoWeight
    /\ matrix_files = EmptyMap
    /\ stats_files = EmptyMap
    /\ last_written = NoPath
    /\ last_read = NoPath
    /\ pruned = EmptyMap
    /\ err = "none"

Init ==
    /\ HypergraphInit
    /\ last_call = NoCall
    /\ pc = "api"
    /\ tables = EmptyMap
    /\ MainIdle

CallAddNode ==
    /\ pc = "api"
    /\ \E node \in Node :
          /\ add_node(node)
          /\ last_call' = [op |-> "add_node", members |-> <<>>]
    /\ UNCHANGED main

CallAddHyperedge ==
    /\ pc = "api"
    /\ \E hyperedge_id \in Ids, members \in MemberLists :
          /\ add_hyperedge(hyperedge_id, members)
          /\ last_call' = [op |-> IF hyperedge_id \in DOMAIN hyperedges
                                  THEN "add_hyperedge_exists" ELSE "add_hyperedge",
                           members |-> <<>>]
    /\ UNCHANGED main

CallRemoveHyperedge ==
    /\ pc = "api"
    /\ \E hyperedge_id \in Ids :
          /\ remove_hyperedge(hyperedge_id)
          /\ last_call' = IF hyperedge_id \in DOMAIN hyperedges
                          THEN [op |-> "remove_hyperedge",
                                members |-> hyperedges[hyperedge_id]]
                          ELSE [op |-> "remove_hyperedge_missing",
                                members |-> <<>>]
    /\ UNCHANGED main

\* add_weights on a hyperedge of the store (any other id is a KeyError that
\* changes nothing)
CallAddWeights ==
    /\ pc = "api"
    /\ \E hyperedge_id \in DOMAIN weights, value \in WeightVals :
          /\ Len(weights[hyperedge_id]) < MaxHist
          /\ weights' = add_weights_to(weights, hyperedge_id, value)
          /\ last_call' = [op |-> "add_weights", members |-> <<>>]
    /\ UNCHANGED <<nodes, hyperedges, ricci_curvature>>
    /\ UNCHANGED main

Next ==
    \/ CallAddNode
    \/ CallAddHyperedge
    \/ CallRemoveHyperedge
    \/ CallAddWeights

Spec == Init /\ [][Next]_vars

\* ------------------------- SpecStore: the store with its curvature history
\* the curvature a caller appends through add_ricci_curvature: the 1 of
\* line 343 (add_ricci_curvature appends whatever it is given)
CurvatureVals == {FInt(1)}

\* add_hyperedge; when the id is refused, the offered members are kept with
\* the call
OfferHyperedge ==
    /\ pc = "api"
    /\ \E hyperedge_id \in Ids, members \in MemberLists :
          /\ add_hyperedge(hyperedge_id, members)
          /\ last_call' = IF hyperedge_id \in DOMAIN hyperedges
                          THEN [op |-> "add_hyperedge_exists", members |-> members]
                          ELSE [op |-> "add_hyperedge", members |-> <<>>]
    /\ UNCHANGED main

\* add_ricci_curvature, as the update passes call it: on a hyperedge of the
\* store
CallAddRicciCurvature ==
    /\ pc = "api"
    /\ \E hyperedge_id \in DOMAIN hyperedges, orc \in CurvatureVals :
          /\ hyperedge_id \in DOMAIN ricci_curvature
                => Len(ricci_curvature[hyperedge_id]) < MaxHist - 1
          /\ ricci_curvature' = add_ricci_curvature_to(ricci_curvature, hyperedge_id, orc)
          /\ last_call' = [op |-> "add_ricci_curvature", members |-> <<>>]
    /\ UNCHANGED <<nodes, hyperedges, weights>>
    /\ UNCHANGED main

NextStore ==
    \/ CallAddNode
    \/ OfferHyperedge
    \/ CallRemoveHyperedge
    \/ CallAddWeights
    \/ CallAddRicciCurvature

SpecStore == Init /\ [][NextStore]_vars

\* ------------------------------------------------ SpecMain: __main__
EvenIterations == {k \in 1..total_iterations : k % 2 = 0}

\* a weight table left in outputfiles/ by an earlier run
StaleTable == <<[id |-> 1, orc |-> FInt(0), weight |-> (6 * Scale) \div 10]>>

\* the state when __main__ starts: an empty hypergraph (line 588), and on
\* disk possibly weight tables of earlier runs under outputfiles/
MainInit ==
    /\ HypergraphInit
    /\ last_call = NoCall
    /\ pc = "build"
    /\ \E present \in SUBSET EvenIterations :
          tables = [p \in {surgery_file(k) : k \in present} |-> StaleTable]
    /\ MainIdle

Raise(exception) ==
    /\ pc' = "aborted"
    /\ err' = exception

\* build_from_dataframe, one row of the data frame (lines 61-64)
BuildRow ==
    /\ pc = "build"
    /\ rows < MaxRows
    /\ \E paper_id \in Ids, author_ids \in MemberLists :
          add_hyperedge(paper_id, author_ids)
    /\ rows' = rows + 1
    /\ UNCHANGED <<last_call, pc, iteration, todo, distance_matrix, normalized_weight,
                   tables, matrix_files, stats_files, last_written, last_read, pruned, err>>

\* the data frame has no more rows (line 589 returns)
BuildDone ==
    /\ pc = "build"
    /\ pc' = "distance"
    /\ UNCHANGED <<store, last_call, rows, iteration, todo, distance_matrix,
                   normalized_weight, tables, matrix_files, stats_files, last_written,
                   last_read, pruned, err>>

\* lines 605-613: the first distance matrix, saved, and
\* update_orc_and_weights_iter0 up to its loop (lines 556-563)
Distance0 ==
    /\ pc = "distance"
    /\ distance_matrix' = calculate_distance_matrix
    /\ matrix_files' = Put(matrix_files, testing_fw_file, calculate_distance_matrix)
    /\ tables' = opened_for_append(tables, orc_file(0))
    /\ last_written' = orc_file(0)
    /\ todo' = DOMAIN hyperedges
    /\ pc' = "iteration0"
    /\ UNCHANGED <<store, last_call, rows, iteration, normalized_weight, stats_files,
                   last_read, pruned, err>>

\* lines 566-578 with the curvature orc of line 566, the last weight and the
\* weight to append
Iteration0Turn(hyperedge_id, orc, weight, new_weight) ==
    IF orc = MassMismatch
    THEN /\ Raise("ValueError")
         /\ UNCHANGED <<store, todo, normalized_weight, tables>>
    ELSE /\ ricci_curvature' = add_ricci_curvature_to(ricci_curvature, hyperedge_id, orc)
         /\ IF weight # 0 /\ orc = None
            THEN /\ Raise("TypeError")
                 /\ UNCHANGED <<nodes, hyperedges, weights, todo, normalized_weight, tables>>
            ELSE IF weight = 0 /\ normalized_weight = NoWeight
            THEN /\ Raise("UnboundLocalError")
                 /\ UNCHANGED <<nodes, hyperedges, weights, todo, normalized_weight, tables>>
            ELSE /\ weights' = add_weights_to(weights, hyperedge_id, new_weight)
                 /\ normalized_weight' = new_weight
                 /\ tables' = with_row(tables, orc_file(0), hyperedge_id, orc, new_weight)
                 /\ todo' = todo \ {hyperedge_id}
                 /\ UNCHANGED <<nodes, hyperedges, pc, err>>

\* variant of updated_weight: the raw weight with the opposite sign
updated_weight_negated(weight, orc) ==
    IF weight # 0
    THEN adjusted_sigmoid_0_to_1(FMul(FInt(weight), FSub(orc, FInt(1))))
    ELSE normalized_weight

\* lines 570-574: the weight the turn appends
updated_weight(weight, orc) ==
    IF weight # 0
    THEN adjusted_sigmoid_0_to_1(FMul(FInt(weight), FSub(FInt(1), orc)))
    ELSE normalized_weight

\* update_orc_and_weights_iter0, one turn of its loop (lines 565-578)
Iteration0Step ==
    /\ pc = "iteration0"
    /\ \E hyperedge_id \in todo :
       \E solved \in [Combinations2(hyperedges[hyperedge_id]) -> BOOLEAN] :
          Iteration0Turn(hyperedge_id,
              earthmover_distance_hyperedge_combinations(hyperedge_id, distance_matrix, solved),
              Last(weights[hyperedge_id]),
              updated_weight(Last(weights[hyperedge_id]),
                  earthmover_distance_hyperedge_combinations(
                      hyperedge_id, distance_matrix, solved)))
    /\ UNCHANGED <<last_call, rows, iteration, distance_matrix, matrix_files, stats_files,
                   last_written, last_read, pruned>>

\* the loop of update_orc_and_weights_iter0 ends; lines 615-620
Iteration0Done ==
    /\ pc = "iteration0"
    /\ todo = {}
    /\ pc' = "loop"
    /\ iteration' = 1
    /\ UNCHANGED <<store, last_call, rows, todo, distance_matrix, normalized_weight,
                   tables, matrix_files, stats_files, last_written, last_read, pruned, err>>

\* line 620: the range is used up
LoopExit ==
    /\ pc = "loop"
    /\ iteration > total_iterations
    /\ pc' = "done"
    /\ UNCHANGED <<store, last_call, rows, iteration, todo, distance_matrix,
                   normalized_weight, tables, matrix_files, stats_files, last_written,
                   last_read, pruned, err>>

\* lines 620-622
LoopDistance ==
    /\ pc = "loop"
    /\ iteration <= total_iterations
    /\ distance_matrix' = floyd_warshall(list_nodes(nodes))
    /\ pc' = "save_and_update"
    /\ UNCHANGED <<store, last_call, rows, iteration, todo, normalized_weight, tables,
                   matrix_files, stats_files, last_written, last_read, pruned, err>>

\* line 623: save_and_update (lines 526-530) and update_orc_and_weights_iter
\* (lines 487-508).  Line 499 calls earthmover_distance_hyperedge_combinations
\* without its parameter verbose, a TypeError in the first turn of the loop.
SaveAndUpdate ==
    /\ pc = "save_and_update"
    /\ matrix_files' = Put(matrix_files, matrix_file(iteration), distance_matrix)
    /\ tables' = opened_for_append(tables, weights_file(iteration))
    /\ last_written' = weights_file(iteration)
    /\ IF DOMAIN hyperedges # {}
       THEN /\ Raise("TypeError")
            /\ UNCHANGED iteration
       ELSE IF iteration % 2 = 0
       THEN /\ pc' = "delete"
            /\ UNCHANGED <<iteration, err>>
       ELSE /\ pc' = "loop"
            /\ iteration' = iteration + 1
            /\ UNCHANGED err
    /\ UNCHANGED <<store, last_call, rows, todo, distance_matrix, normalized_weight,
                   stats_files, last_read, pruned>>

\* lines 625-627: delete_hyperedges (lines 533-538)
DeleteHyperedges ==
    /\ pc = "delete"
    /\ last_read' = surgery_file(iteration)
    /\ LET total_hyperedges == Cardinality(DOMAIN hyperedges)
           del_hyperedges == (percentage.num * total_hyperedges) \div percentage.den
       IN IF surgery_file(iteration) \notin DOMAIN tables
          THEN /\ Raise("FileNotFoundError")
               /\ UNCHANGED <<store, pruned>>
          ELSE \E hyperedges_to_remove \in
                    find_top_n_weighted_hyperedges(tables[surgery_file(iteration)],
                                                   del_hyperedges) :
                  LET after == after_removals(
                                  [nodes |-> nodes, hyperedges |-> hyperedges,
                                   weights |-> weights], hyperedges_to_remove)
                  IN /\ nodes' = after.nodes
                     /\ hyperedges' = after.hyperedges
                     /\ weights' = after.weights
                     /\ pruned' = Put(pruned, iteration,
                                      [total |-> total_hyperedges,
                                       removed |-> (DOMAIN hyperedges) \ (DOMAIN after.hyperedges),
                                       kept |-> after.weights])
                     /\ pc' = "stats"
                     /\ UNCHANGED <<ricci_curvature, err>>
    /\ UNCHANGED <<last_call, rows, iteration, todo, distance_matrix, normalized_weight,
                   tables, matrix_files, stats_files, last_written>>

\* lines 628-629: write_hypergraph_stats (lines 540-553)
WriteStats ==
    /\ pc = "stats"
    /\ stats_files' = Put(stats_files, stats_file(iteration),
                          [hyperedges |-> Cardinality(DOMAIN hyperedges),
                           nodes |-> Cardinality(nodes),
                           connected |-> check_weak_connectivity,
                           components |-> connected_components,
                           listing |-> hyperedges])
    /\ pc' = "loop"
    /\ iteration' = iteration + 1
    /\ UNCHANGED <<store, last_call, rows, todo, distance_matrix, normalized_weight,
                   tables, matrix_files, last_written, last_read, pruned, err>>

MainNext ==
    \/ BuildRow
    \/ BuildDone
    \/ Distance0
    \/ Iteration0Step
    \/ Iteration0Done
    \/ LoopExit
    \/ LoopDistance
    \/ SaveAndUpdate
    \/ DeleteHyperedges
    \/ WriteStats

SpecMain == MainInit /\ [][MainNext]_vars

\* ------------------------------------------------------------- claims
\* weight of the pair-edge {a, b} of the hyperedge-induced graph: the least
\* current weight of a hyperedge holding both, Inf when there is none
PairWeight(a, b) ==
    LET joining == {h \in DOMAIN hyperedges : {a, b} \subseteq Range(hyperedges[h])}
    IN IF joining = {} THEN Inf ELSE Min({Last(weights[h]) : h \in joining})

\* the paths of the induced graph from a to b that visit no node twice
SimplePaths(a, b) ==
    {p \in UNION {[1..n -> nodes] : n \in 1..Cardinality(nodes)} :
        /\ p[1] = a
        /\ p[Len(p)] = b
        /\ \A x, y \in DOMAIN p : x # y => p[x] # p[y]
        /\ \A x \in 1..(Len(p) - 1) : PairWeight(p[x], p[x + 1]) # Inf}

RECURSIVE PathWeight(_)
PathWeight(p) ==
    IF Len(p) < 2 THEN 0 ELSE PairWeight(p[1], p[2]) + PathWeight(Tail(p))

ShortestPathWeight(a, b) ==
    LET path_weights == {PathWeight(p) : p \in SimplePaths(a, b)}
    IN IF path_weights = {} THEN 0 ELSE Min(path_weights)

C7_SymmetricZeroDiagonal ==
    pc = "api" =>
    \A node_list \in Perms(nodes) :
        LET dist == floyd_warshall(node_list)
        IN \A a, b \in 1..Len(node_list) :
              dist[a][b] = dist[b][a] /\ dist[a][a] = 0

\* C7 witness: a matrix with a non-zero off-diagonal entry and, elsewhere, an
\* unreachable pair
C7_Witness ==
    /\ pc = "api"
    /\ LET dist == floyd_warshall(list_nodes(nodes))
       IN /\ \E a, b \in DOMAIN dist : a # b /\ dist[a][b] > 0
          /\ \E a, b \in DOMAIN dist : a # b /\ PairWeight(list_nodes(nodes)[a], list_nodes(nodes)[b]) = Inf
                                       /\ dist[a][b] = 0

\* the hyperedges that hold both a and b
HoldingBoth(a, b) == {h \in DOMAIN hyperedges : {a, b} \subseteq Range(hyperedges[h])}

\* sum of (|e| - 1) over the hyperedges e that hold v
CoMemberCount(v) ==
    LET holding == {h \in DOMAIN hyperedges : v \in Range(hyperedges[h])}
    IN SumOver([h \in holding |-> Cardinality(DOMAIN hyperedges[h]) - 1], holding)

\* C3 (as claimed): before the normalization step, the mass of a neighbour u
\* of a non-isolated node v is (1 - alpha) * c(v,u) / denominator, with c(v,u)
\* the number of hyperedges that hold both v and u.
C3_NumeratorCountsBoth ==
    pc = "api" =>
    \A v \in nodes :
        CoMemberCount(v) # 0 =>
        \A u \in neighbours(v) :
            unnormalized_probability(v)[u] =
                Frac((alpha.den - alpha.num) * Cardinality(HoldingBoth(v, u)),
                     alpha.den * CoMemberCount(v))

\* C4: every member of every hyperedge of the store is in the node set.
C4_MembershipClosure ==
    \A h \in DOMAIN hyperedges : Range(hyperedges[h]) \subseteq nodes

\* C4 witness: a hyperedge was just removed and a hyperedge that shares a
\* member with it is still in the store
C4_Witness ==
    /\ last_call.op = "remove_hyperedge"
    /\ \E h \in DOMAIN hyperedges :
          Range(hyperedges[h]) \cap Range(last_call.members) # {}

\* C5: remove_hyperedge on an id of the store takes from the node set exactly
\* the members of the removed hyperedge that no remaining hyperedge holds.
C5_OrphanOnlyRemoval ==
    [][last_call'.op = "remove_hyperedge" =>
         nodes' = nodes \ {n \in Range(last_call'.members) :
                              \A h \in DOMAIN hyperedges' : n \notin Range(hyperedges'[h])}]_vars

\* C5 witness: a removal that dropped one member, kept another member that a
\* remaining hyperedge holds, and kept a node that no hyperedge holds
C5_Witness ==
    /\ last_call.op = "remove_hyperedge"
    /\ \E n \in Range(last_call.members) : n \notin nodes
    /\ \E n \in Range(last_call.members) :
          n \in nodes /\ \E h \in DOMAIN hyperedges : n \in Range(hyperedges[h])
    /\ \E n \in nodes : \A h \in DOMAIN hyperedges : n \notin Range(hyperedges[h])

\* C8: node_probability(v) gives every node of the hypergraph a mass, the
\* masses are non-negative and sum to 1, and a node without co-members gets
\* the whole mass.
C8_ProbabilityDistribution ==
    pc = "api" =>
    \A v \in nodes :
        LET p == node_probability(v)
        IN /\ DOMAIN p = nodes
           /\ \A n \in nodes : p[n].num >= 0 /\ p[n].den > 0
           /\ FSum(p, nodes) = FInt(1)
           /\ neighbours(v) = {} => p[v] = FInt(1)

\* C8 witness: a node in two hyperedges whose distribution puts positive
\* mass on itself and on a neighbour, next to a node without co-members
C8_Witness ==
    /\ pc = "api"
    /\ \E v \in nodes :
          /\ node_degree(v) = 2
          /\ node_probability(v)[v].num > 0
          /\ \E u \in neighbours(v) : node_probability(v)[u].num > 0
    /\ \E v \in nodes : neighbours(v) = {} /\ node_probability(v)[v] = FInt(1)

\* C1: started with at least one hyperedge, the controller, once past the
\* baseline pass, runs every iteration 1..total_iterations to its end: no
\* iteration aborts.
C1_NoIterationAborts ==
    (DOMAIN hyperedges # {} /\ iteration >= 1) => pc # "aborted"

\* C2: when the curvature of a hyperedge comes out undefined (None), the
\* update pass raises no error, appends no weight for that hyperedge and
\* goes on with the remaining hyperedges.
C2_UndefinedCurvatureSkipped ==
    [][\A id \in DOMAIN hyperedges :
          (/\ pc = "iteration0"
           /\ id \in todo
           /\ id \in DOMAIN ricci_curvature'
           /\ ricci_curvature' # ricci_curvature
           /\ Last(ricci_curvature'[id]) = None)
          => /\ pc' = "iteration0"
             /\ err' = "none"
             /\ weights' = weights
             /\ todo' = todo \ {id}]_vars

\* the rows of a weight table that belong to the hyperedges in S
RowsOf(table, S) == {r \in DOMAIN table : table[r].id \in S}

\* C9: a controller that has stopped on a hypergraph with hyperedges has
\* pruned at every even iteration k, each time removing floor(0.08 * h) of
\* the h hyperedges, and no hyperedge it kept has, in the weight table
\* written in iteration k, a weight above that of a removed one.
C9_PruneAtEvenIterations ==
    (pc \in {"done", "aborted"} /\ DOMAIN hyperedges # {}) =>
    \A k \in EvenIterations :
        /\ k \in DOMAIN pruned
        /\ Cardinality(pruned[k].removed)
              = (percentage.num * pruned[k].total) \div percentage.den
        /\ weights_file(k) \in DOMAIN tables
        /\ LET table == tables[weights_file(k)]
           IN \A a \in RowsOf(table, pruned[k].removed) :
              \A b \in RowsOf(table, DOMAIN pruned[k].kept) :
                 table[b].weight <= table[a].weight

\* C10: the weight table the prune step reads is the one the update step of
\* the same iteration has just written, at the same location.
C10_PruneReadsWrittenTable ==
    last_read # NoPath =>
        /\ last_read = last_written
        /\ last_written = weights_file(iteration)

\* C11: whenever add_hyperedge creates a hyperedge, also under an id that was
\* removed before, the weight history of the new hyperedge is [1] and its
\* curvature history is empty.
C11_FreshHistories ==
    [][\A id \in Ids :
          (id \notin DOMAIN hyperedges /\ id \in DOMAIN hyperedges')
          => /\ weights'[id] = <<Scale>>
             /\ id \in DOMAIN ricci_curvature' => ricci_curvature'[id] = <<>>]_vars

\* C12: add_hyperedge with an id of the store and remove_hyperedge with an id
\* that is not in the store raise nothing and leave the node set, the
\* members, the weight histories and the curvature histories as they were.
C12_RejectedCallsChangeNothing ==
    [][last_call'.op \in {"add_hyperedge_exists", "remove_hyperedge_missing"}
          => /\ nodes' = nodes
             /\ hyperedges' = hyperedges
             /\ weights' = weights
             /\ ricci_curvature' = ricci_curvature
             /\ err' = "none"]_vars

\* C12 witness: add_hyperedge was refused for an id of the store, it offered
\* a member that is no node of the store, and the store holds a weight
\* history and a curvature history that are longer than when created
C12_Witness ==
    /\ last_call.op = "add_hyperedge_exists"
    /\ \E n \in Range(last_call.members) : n \notin nodes
    /\ \E id \in DOMAIN weights : Len(weights[id]) > 1
    /\ \E id \in DOMAIN ricci_curvature : Len(ricci_curvature[id]) > 0

\* the arguments of the queries examined: single nodes, and lists, sets and
\* tuples of nodes; one argument, or two
QueryArguments ==
    {single(n) : n \in Node}
    \cup {collection(k, Range(m)) : k \in {"list", "set", "tuple"}, m \in MemberLists}

Queries ==
    {<<a>> : a \in QueryArguments} \cup {<<a, b>> : a, b \in QueryArguments}

\* C13: find_hyperedges_containing_nodes takes any mix of single nodes and
\* lists, sets or tuples of nodes, raises nothing (unknown nodes give a
\* warning only) and returns the ids of the hyperedges that hold a node of
\* the flattened query.
C13_FlattenedQuery ==
    pc = "api" =>
    \A args \in Queries :
        /\ find_hyperedges_containing_nodes(args).raised = "none"
        /\ find_hyperedges_containing_nodes(args).found
              = {h \in DOMAIN hyperedges :
                    \E a \in Range(args) : a.items \cap Range(hyperedges[h]) # {}}

\* C14: for every node v of the hypergraph, with the distance matrix
\* computed on the current state and the solver reaching the optimum, the
\* transport distance from v's distribution to itself is 0.
C14_SelfDistanceZero ==
    pc = "api" =>
    \A v \in nodes :
        earthmover_distance_gurobi_distance_matrix(v, v, calculate_distance_matrix, TRUE)
            = FInt(0)

\* C14 witness: a node whose distribution spreads over itself and a neighbour
\* at a positive distance, and whose distance to that neighbour's
\* distribution is positive
C14_Witness ==
    /\ pc = "api"
    /\ \E v \in nodes : \E u \in neighbours(v) :
          /\ node_probability(v)[u].num > 0
          /\ PairWeight(v, u) > 0
          /\ earthmover_distance_gurobi_distance_matrix(
                 v, u, calculate_distance_matrix, TRUE).num > 0
          /\ earthmover_distance_gurobi_distance_matrix(
                 v, v, calculate_distance_matrix, TRUE) = FInt(0)

\* the update passes __main__ has completed: pass 0 is the baseline pass,
\* pass k the one of iteration k
completed_passes ==
    IF iteration = 0 THEN 0
    ELSE IF pc \in {"delete", "stats"} \/ err = "FileNotFoundError" THEN iteration + 1
    ELSE iteration

\* C15: a pass appends one weight and one curvature to the histories of each
\* hyperedge it visits and keeps the earlier entries: during the baseline
\* pass a hyperedge not yet visited has the weight history [1] and no
\* curvature, a visited one has two weights, the first still 1, and one
\* curvature; after n completed passes every hyperedge has n + 1 weights,
\* the first still 1, and n curvatures.
C15_HistoriesGrowByOne ==
    /\ (pc = "iteration0") =>
          \A id \in DOMAIN hyperedges :
             IF id \in todo
             THEN /\ weights[id] = <<Scale>>
                  /\ id \notin DOMAIN ricci_curvature
             ELSE /\ Len(weights[id]) = 2
                  /\ weights[id][1] = Scale
                  /\ Len(ricci_curvature[id]) = 1
    /\ (pc \notin {"build", "distance", "iteration0"} /\ ~(pc = "aborted" /\ iteration = 0)) =>
          \A id \in DOMAIN hyperedges :
             /\ Len(weights[id]) = completed_passes + 1
             /\ weights[id][1] = Scale
             /\ id \in DOMAIN ricci_curvature
             /\ Len(ricci_curvature[id]) = completed_passes

\* C15 witness: the baseline pass is complete on two hyperedges, each with
\* its initial weight followed by the new one and with one curvature
C15_Witness ==
    /\ pc = "loop"
    /\ iteration = 1
    /\ Cardinality(DOMAIN hyperedges) = 2
    /\ \A id \in DOMAIN hyperedges :
          /\ Len(weights[id]) = 2
          /\ weights[id][2] # weights[id][1]
          /\ Len(ricci_curvature[id]) = 1

\* the weight histories as they were when the running baseline pass began:
\* the pass has appended one weight to each hyperedge it has visited
weights_at_pass_start ==
    [id \in DOMAIN weights |->
        IF id \in todo THEN weights[id]
        ELSE SubSeq(weights[id], 1, Len(weights[id]) - 1)]

\* C16: the matrix a pass computes curvatures with is the one a computation
\* from scratch gives on the current nodes and hyperedges with the weights
\* the pass began with: nothing but the weight appends of the pass itself
\* has changed the store since the matrix was computed, and the matrix has
\* one row and one column per current node, in the order of the node list.
C16_MatrixIsFresh ==
    /\ pc = "iteration0" =>
          /\ distance_matrix
                = floyd_warshall_on(list_nodes(nodes), hyperedges, weights_at_pass_start)
          /\ Len(distance_matrix) = Cardinality(nodes)
    /\ pc = "save_and_update" =>
          /\ distance_matrix = floyd_warshall_on(list_nodes(nodes), hyperedges, weights)
          /\ Len(distance_matrix) = Cardinality(nodes)

\* C16 witness: iteration 1 is about to run its pass with a matrix that
\* differs from the matrix of the baseline pass, the weights having changed
C16_Witness ==
    /\ pc = "save_and_update"
    /\ iteration = 1
    /\ \E id \in DOMAIN hyperedges : Len(hyperedges[id]) = 2
    /\ distance_matrix # matrix_files[testing_fw_file]
    /\ Len(distance_matrix) = Len(matrix_files[testing_fw_file])

\* C17: in every state of the pipeline the current weight of every hyperedge
\* is not 0 and every weight a pass has appended is at least 1/2, every
\* curvature written is at most 1 (the raw weight w * (1 - curvature) is not
\* negative), and the zero-weight branch of the weight update is not taken.
C17_WeightsNeverZero ==
    /\ \A id \in DOMAIN hyperedges :
          /\ Last(weights[id]) # 0
          /\ \A k \in 2..Len(weights[id]) : 2 * weights[id][k] >= Scale
    /\ \A path \in DOMAIN tables : path.dir = "." =>
          \A r \in DOMAIN tables[path] :
             /\ FLeq(tables[path][r].orc, FInt(1))
             /\ 2 * tables[path][r].weight >= Scale
    /\ err # "UnboundLocalError"

\* C17 witness: the baseline pass has given a hyperedge of two members a
\* curvature below 1 and a weight above 1/2, and a hyperedge of one member
\* the weight 1/2
C17_Witness ==
    /\ pc = "loop"
    /\ iteration = 1
    /\ \E id \in DOMAIN hyperedges :
          /\ Len(hyperedges[id]) = 2
          /\ ricci_curvature[id][1] # FInt(1)
          /\ FLeq(ricci_curvature[id][1], FInt(1))
          /\ 2 * Last(weights[id]) > Scale
    /\ \E id \in DOMAIN hyperedges :
          /\ Len(hyperedges[id]) = 1
          /\ 2 * Last(weights[id]) = Scale
====
